---- MODULE Spec2Model ----
(***************************************************************************)
(* The Super Bowl score-processing pipeline of Griddo: the edge function   *)
(* check-super-bowl-scores (serve handler, processQuarter,                 *)
(* processGameComplete), the admin actions that touch its tables, and the  *)
(* relational store they share.  Every await of the handler is one atomic  *)
(* step of a run; the store is the only state shared between runs.         *)
(***************************************************************************)
EXTENDS Integers, Sequences, FiniteSets, TLC

\* ------------------------------------------------------------------ bounds

\* Requests served in one behaviour.
MaxRequests == 2
\* Injected failures (store errors, feed errors, refused emails) per behaviour.
MaxFaults == 1
\* Largest period number the feed reports (5 = overtime).
MaxPeriod == 5
\* Manual resets of the email flags (resendQuarterEmails) per behaviour.
MaxResets == 1
\* Largest home or away score given to the winner calculation on its own.
MaxScore == 12
\* Scheduled runs that get as far as the last-checked update, where the
\* schedule goes on for ever.
MaxChecks == 3

\* ------------------------------------------------------------ program data

\* SQL NULL / JS null of a text value, of an integer, of an array, of a row id.
NULL == "null"
NullInt == -1
NoNumbers == <<>>
NullId == <<>>

\* quarter TEXT NOT NULL CHECK (quarter IN ('q1', 'q2', 'q3', 'final'))
Quarters == {"q1", "q2", "q3", "final"}

\* The fixed order of the final sweep: quartersToProcess.push('q1', 'q2', 'q3', 'final')
ALL_QUARTERS == <<"q1", "q2", "q3", "final">>

\* ESPN period -> our quarter mapping; NULL where the table has no entry.
PERIOD_TO_QUARTER(p) ==
  CASE p = 1 -> "q1"
    [] p = 2 -> "q2"
    [] p = 3 -> "q3"
    [] p = 4 -> "final"
    [] OTHER -> NULL

Min(a, b) == IF a <= b THEN a ELSE b

\* Array.prototype.indexOf on a number[] : the 0-based position of the first
\* occurrence of v, or -1.
IndexOf(seq, v) ==
  IF \E i \in 1..Len(seq) : seq[i] = v
    THEN (CHOOSE i \in 1..Len(seq) :
            seq[i] = v /\ \A j \in 1..(i - 1) : seq[j] # v) - 1
    ELSE -1

Contests == {"c1", "c2"}

\* The order in which the contest query returns its rows.
ContestOrder == <<"c1", "c2">>

\* auth.users: the e-mail address of each owner; u2 has none.
OwnerEmail(owner_id) == IF owner_id = "u1" THEN "owner1@mail" ELSE NULL

\* contests rows.  c1 is an open Super Bowl contest with its numbers drawn.
ContestC1 ==
  [id |-> "c1", owner_id |-> "u1", status |-> "open",
   is_super_bowl |-> TRUE, sport_type |-> "football", deleted_at |-> NULL,
   row_numbers |-> <<7, 3, 0, 1, 2, 4, 5, 6, 8, 9>>,
   col_numbers |-> <<3, 9, 8, 7, 6, 5, 4, 2, 1, 0>>,
   square_price |-> 10,
   payout |-> [q \in Quarters |-> IF q = "final" THEN 40 ELSE 20]]

\* The same contest with an owner that has no e-mail address, and with row
\* numbers that lack the digits the feed's scores end in.
ContestC1Variants ==
  { ContestC1,
    [ContestC1 EXCEPT !.owner_id = "u2"],
    [ContestC1 EXCEPT !.row_numbers = <<5, 6>>] }

\* The second contest, in the shapes the contest query and the loop tell apart.
ContestC2Variants ==
  LET base == [id |-> "c2", owner_id |-> "u2", status |-> "locked",
               is_super_bowl |-> TRUE, sport_type |-> "football",
               deleted_at |-> NULL,
               row_numbers |-> <<0, 1, 2, 3, 4, 5, 6, 7, 8, 9>>,
               col_numbers |-> <<9, 8, 7, 6, 5, 4, 3, 2, 1, 0>>,
               square_price |-> 5,
               payout |-> [q \in Quarters |-> IF q = "q1" THEN NullInt ELSE 25]]
  IN { base,
       [base EXCEPT !.row_numbers = NoNumbers],
       [base EXCEPT !.is_super_bowl = FALSE] }

\* squares rows: 100 per contest, (row_index, col_index) in 0..9 x 0..9.  Two
\* squares of c1 are claimed with an e-mail address, the rest are unclaimed.
ClaimantEmail(c, i, j) ==
  CASE c = "c1" /\ i = 0 /\ j = 0 -> "ann@mail"
    [] c = "c1" /\ i = 3 /\ j = 2 -> "bob@mail"
    [] OTHER -> NULL

SquareId(c, i, j) == <<c, i, j>>

\* The squares table is kept as the claimant of every square that has one at the
\* start; SquareRows rebuilds the contest's 100 rows from it.
ClaimedSquares == { SquareId("c1", 0, 0), SquareId("c1", 3, 2) }

InitSquares == [id \in ClaimedSquares |-> ClaimantEmail(id[1], id[2], id[3])]

\* What the score feed can answer: an HTTP failure, no matching event, or the
\* matched event's status.
StatusNames ==
  {"STATUS_IN_PROGRESS", "STATUS_END_PERIOD", "STATUS_HALFTIME", "STATUS_FINAL"}

\* What a POST body can carry as `quarter`.
ManualQuarters == Quarters \cup {"q5"}

\* Home and away scores the feed reports.
ScorePairs == { <<7, 3>>, <<21, 17>> }

Snapshot(st, p, done, sc) ==
  [found |-> TRUE, ok |-> TRUE, statusName |-> st, period |-> p,
   completed |-> done, homeScore |-> sc[1], awayScore |-> sc[2]]

NoEvent(ok) ==
  [found |-> FALSE, ok |-> ok, statusName |-> "", period |-> 0,
   completed |-> FALSE, homeScore |-> 0, awayScore |-> 0]

FeedError == NoEvent(FALSE)
FeedNotFound == NoEvent(TRUE)

FeedFound ==
  { Snapshot(st, p, done, sc) :
      st \in StatusNames, p \in 0..MaxPeriod, done \in BOOLEAN, sc \in ScorePairs }

\* !contest.row_numbers || !contest.col_numbers, negated
HasNumbers(contest) ==
  contest.row_numbers # NoNumbers /\ contest.col_numbers # NoNumbers

\* ------------------------------------------------------------------- state

RunIds == {1, 2}

VARIABLES
  config,           \* the super_bowl_config row
  contests,         \* contests rows, by id
  squares,          \* squares rows: claimant_email by square id (see SquareRows)
  quarter_results,  \* super_bowl_quarter_results rows
  scores,           \* scores rows
  run,              \* each run's position and locals
  sendCalls,        \* email transport calls made, by <<kind, contest, quarter>>
  sendOK,           \* email transport calls accepted, by the same key
  lastCall,         \* per <<contest, quarter>>: the last processQuarter call that returned
  requests,         \* requests served so far
  faults,           \* failures injected so far
  resets            \* manual flag resets so far

vars == <<config, contests, squares, quarter_results, scores, run,
          sendCalls, sendOK, lastCall, requests, faults, resets>>

MailKeys ==
  ({"winner", "owner"} \X Contests \X Quarters) \cup ({"summary"} \X Contests \X {"all"})

\* `existing` when the lookup finds no row: existing?.winner_email_sent is undefined.
NoExisting == [found |-> FALSE, winner_email_sent |-> FALSE, owner_email_sent |-> FALSE]

\* winningSquare = null
NoSquare == [id |-> NullId, claimant_email |-> NULL]

NoResult == [processed |-> FALSE, error |-> NULL]

\* No processQuarter call has returned for the pair since the last outside write.
NoCall ==
  [valid |-> FALSE, contest |-> ContestC1, homeScore |-> 0, awayScore |-> 0,
   squares |-> InitSquares, error |-> NULL, winnerOK |-> FALSE, ownerOK |-> FALSE,
   winner_email_sent |-> FALSE, owner_email_sent |-> FALSE]

\* No result record has been built.
NoRecord == [contest_id |-> NULL]

\* saveScores has not answered.
NoManual == [accepted |-> FALSE, winningSquareId |-> NullId]

\* The run was not started by resendQuarterEmails.
NoPair == <<>>

\* What a run found in the store when its request arrived.
Before(qr, sc, cs, cfg, calls) ==
  [quarter_results |-> qr, scores |-> sc, contests |-> cs, config |-> cfg,
   game_finished |-> cfg.game_finished, sendCalls |-> calls]

NoBefore ==
  Before({}, {}, [c \in Contests |-> ContestC1], [game_finished |-> FALSE],
         [k \in MailKeys |-> 0])

IdleRun ==
  [pc |-> "idle", method |-> NULL, manualQuarter |-> NULL, forceProcess |-> FALSE,
   espn |-> FeedNotFound, quartersToProcess |-> <<>>, contestList |-> <<>>,
   ci |-> 1, qi |-> 1, gi |-> 1,
   existing |-> NoExisting, winningSquare |-> NoSquare,
   winnerEmailSent |-> FALSE, ownerEmailSent |-> FALSE,
   winnerCall |-> FALSE, ownerCall |-> FALSE, winnerOK |-> FALSE, ownerOK |-> FALSE,
   result |-> NoResult, results |-> <<>>, logs |-> <<>>,
   status |-> NULL, effects |-> 0, callEffects |-> 0, rowBefore |-> {},
   before |-> NoBefore,
   squareRows |-> {}, manual |-> NoManual, record |-> NoRecord, fetched |-> FALSE,
   resent |-> NoPair, totalPayout |-> NullInt]

\* INSERT INTO super_bowl_config (enabled, game_date) VALUES (false, ...)
InitConfig ==
  [enabled |-> FALSE, game_finished |-> FALSE, last_checked_at |-> 0,
   last_status |-> NULL, last_period |-> NullInt]

InitStore(c1rows, c2rows) ==
  /\ config = InitConfig
  /\ \E c1 \in c1rows, c2 \in c2rows :
       contests = [c \in Contests |-> IF c = "c1" THEN c1 ELSE c2]
  /\ squares = InitSquares
  /\ quarter_results = {}
  /\ scores = {}
  /\ run = [r \in RunIds |-> IdleRun]
  /\ sendCalls = [k \in MailKeys |-> 0]
  /\ sendOK = [k \in MailKeys |-> 0]
  /\ lastCall = [k \in Contests \X Quarters |-> NoCall]
  /\ requests = 0
  /\ resets = 0

InitWith(c1rows, c2rows) == InitStore(c1rows, c2rows) /\ faults = 0

\* The store after the migrations, with the contests created: c1 as above, and
\* a second contest that is not a Super Bowl contest.
Init == InitWith(ContestC1Variants, { row \in ContestC2Variants : ~row.is_super_bowl })

\* ------------------------------------------------------------ serve handler

FaultOK == faults < MaxFaults

Log(r, action, status) == Append(run[r].logs, [action |-> action, status |-> status])

\* Ends the run with a JSON response carrying `status` ("error" for a 500).
Respond(rec, status) == [rec EXCEPT !.pc = "done", !.status = status]

\* What a request can be: a GET, or a POST with the optional body
\* { quarter?, force? }.
Requests ==
  { [method |-> "GET", quarter |-> NULL, force |-> FALSE] } \cup
  { [method |-> "POST", quarter |-> q, force |-> f] :
      q \in ManualQuarters \cup {NULL}, f \in BOOLEAN }

\* serve: the method check and the optional body of a manual trigger.  The body
\* is parsed for a POST only, so a GET carries neither a quarter nor force.
Accept(r, req) ==
  /\ run[r].pc \in {"idle", "done"}
  /\ run' = [run EXCEPT ![r] =
               [IdleRun EXCEPT !.pc = "config", !.method = req.method,
                               !.before = Before(quarter_results, scores, contests,
                                                 config, sendCalls),
                               !.manualQuarter = IF req.method = "POST" THEN req.quarter ELSE NULL,
                               !.forceProcess = IF req.method = "POST" THEN req.force ELSE FALSE]]
  /\ UNCHANGED <<config, contests, squares, quarter_results, scores,
                 sendCalls, sendOK, lastCall, faults, resets>>

\* One of the MaxRequests requests of a behaviour.
Request(r, req) ==
  /\ requests < MaxRequests
  /\ Accept(r, req)
  /\ requests' = requests + 1

\* The cron call: a GET, for as long as the schedule lasts.
ScheduledRun(r) ==
  /\ config.last_checked_at < MaxChecks
  /\ Accept(r, [method |-> "GET", quarter |-> NULL, force |-> FALSE])
  /\ UNCHANGED requests

\* Faulty variant: force lifts the disabled gate only.
GateForcedPastDisabledOnly(cfg, forceProcess) ==
  IF ~cfg.enabled /\ ~forceProcess THEN "disabled"
  ELSE IF cfg.game_finished THEN "finished"
  ELSE NULL

\* "Exit early if disabled (unless manual force)", "Exit early if game already
\* finished (unless manual force)": the status a gate answers, or NULL.
Gate(cfg, forceProcess) ==
  IF ~cfg.enabled /\ ~forceProcess THEN "disabled"
  ELSE IF cfg.game_finished /\ ~forceProcess THEN "finished"
  ELSE NULL

\* serve: read the config row; the disabled and finished gates.
CheckConfig(r) ==
  /\ run[r].pc = "config"
  /\ \/ /\ FaultOK
        /\ faults' = faults + 1
        /\ run' = [run EXCEPT ![r] =
                     Respond([@ EXCEPT !.logs = Log(r, "check_scores", "error")], "error")]
     \/ /\ UNCHANGED faults
        /\ run' = [run EXCEPT ![r] =
                     IF Gate(config, run[r].forceProcess) # NULL
                       THEN Respond(@, Gate(config, run[r].forceProcess))
                       ELSE [@ EXCEPT !.pc = "fetch"]]
  /\ UNCHANGED <<config, contests, squares, quarter_results, scores,
                 sendCalls, sendOK, lastCall, requests, resets>>

\* Faulty variant: a failed fetch is taken for a feed without the game.
fetchESPNScoresOrNoGame(r, answer) ==
  /\ run[r].pc = "fetch"
  /\ IF answer.ok THEN UNCHANGED faults ELSE FaultOK /\ faults' = faults + 1
  /\ run' = [run EXCEPT ![r].espn = answer, ![r].fetched = TRUE,
                        ![r].pc = "update_config"]
  /\ UNCHANGED <<config, contests, squares, quarter_results, scores,
                 sendCalls, sendOK, lastCall, requests, resets>>

\* fetchESPNScores: a non-2xx answer throws, and the handler's catch turns the
\* throw into a 500 after logging it.  The run keeps the feed's answer either way.
fetchESPNScores(r, answer) ==
  /\ run[r].pc = "fetch"
  /\ IF answer.ok
       THEN /\ run' = [run EXCEPT ![r].espn = answer, ![r].fetched = TRUE,
                                  ![r].pc = "update_config"]
            /\ UNCHANGED faults
       ELSE /\ FaultOK
            /\ faults' = faults + 1
            /\ run' = [run EXCEPT ![r] =
                         Respond([@ EXCEPT !.espn = answer, !.fetched = TRUE,
                                           !.logs = Log(r, "unhandled_error", "error")],
                                 "error")]
  /\ UNCHANGED <<config, contests, squares, quarter_results, scores,
                 sendCalls, sendOK, lastCall, requests, resets>>

\* Faulty variant: the update writes the feed's completed flag into
\* game_finished along with the last-checked columns.
LastCheckedWithFinished(cfg, espn) ==
  [cfg EXCEPT !.last_checked_at = @ + 1,
              !.last_status = IF espn.statusName = "" THEN NULL ELSE espn.statusName,
              !.last_period = IF espn.period = 0 THEN NullInt ELSE espn.period,
              !.game_finished = espn.completed]

\* The columns "Update last checked" sets: espn.statusName || null and
\* espn.period || null.
LastChecked(cfg, espn) ==
  [cfg EXCEPT !.last_checked_at = @ + 1,
              !.last_status = IF espn.statusName = "" THEN NULL ELSE espn.statusName,
              !.last_period = IF espn.period = 0 THEN NullInt ELSE espn.period]

\* serve: "Update last checked", then the no_game return.
UpdateLastChecked(r) ==
  /\ run[r].pc = "update_config"
  /\ config' = LastChecked(config, run[r].espn)
  /\ run' = [run EXCEPT ![r] =
               IF ~run[r].espn.found
                 THEN Respond([@ EXCEPT !.logs = Log(r, "check_scores", "skipped")], "no_game")
                 ELSE [@ EXCEPT !.logs = Log(r, "check_scores", "success"), !.pc = "resolve"]]
  /\ UNCHANGED <<contests, squares, quarter_results, scores,
                 sendCalls, sendOK, lastCall, requests, faults, resets>>

\* Faulty variant: only the quarter of the period that just ended.
PeriodQuartersCurrentOnly(period) ==
  IF PERIOD_TO_QUARTER(Min(period, 4)) = NULL THEN <<>>
  ELSE <<PERIOD_TO_QUARTER(Min(period, 4))>>

\* "Quarter just ended - process current and all previous"
PeriodQuarters(period) ==
  SelectSeq([p \in 1..Min(period, 4) |-> PERIOD_TO_QUARTER(p)], LAMBDA q : q # NULL)

\* Faulty variant: the completed flag is not consulted.
IsGameFinalStatusOnly(espn) == espn.statusName = "STATUS_FINAL"

IsGameFinal(espn) == espn.statusName = "STATUS_FINAL" \/ espn.completed

IsQuarterEnd(espn) ==
  espn.statusName = "STATUS_END_PERIOD" \/ espn.statusName = "STATUS_HALFTIME"

\* Faulty variant: the feed's status is inspected before the manual quarter.
QuartersToProcessStatusFirst(manualQuarter, espn) ==
  IF IsGameFinal(espn) THEN ALL_QUARTERS
  ELSE IF IsQuarterEnd(espn) THEN PeriodQuarters(espn.period)
  ELSE IF manualQuarter # NULL THEN <<manualQuarter>>
  ELSE <<>>

\* "Determine which quarters to process": the list built by the first three
\* branches (the fourth branch returns in_progress, see ResolveQuarters).
QuartersToProcess(manualQuarter, espn) ==
  IF manualQuarter # NULL THEN <<manualQuarter>>
  ELSE IF IsGameFinal(espn) THEN ALL_QUARTERS
  ELSE IF IsQuarterEnd(espn) THEN PeriodQuarters(espn.period)
  ELSE <<>>

\* The else branch: "Game in progress but no quarter end - nothing to process".
WaitsForQuarterEnd(manualQuarter, espn) ==
  manualQuarter = NULL /\ ~IsGameFinal(espn) /\ ~IsQuarterEnd(espn)

ResolveQuarters(r) ==
  /\ run[r].pc = "resolve"
  /\ LET list == QuartersToProcess(run[r].manualQuarter, run[r].espn) IN
       run' = [run EXCEPT ![r] =
                 IF WaitsForQuarterEnd(run[r].manualQuarter, run[r].espn)
                   THEN Respond(@, "in_progress")
                 ELSE IF Len(list) = 0 THEN Respond(@, "nothing_to_process")
                 ELSE [@ EXCEPT !.quartersToProcess = list, !.pc = "contests"]]
  /\ UNCHANGED <<config, contests, squares, quarter_results, scores,
                 sendCalls, sendOK, lastCall, requests, faults, resets>>

\* ----------------------------------------------------------- processQuarter

\* The position of the next processQuarter call at or after (ci, qi): contests
\* without assigned numbers are skipped, and a contest whose quarters are
\* exhausted hands over to the next one.  ci = Len + 1 when the loops are over.
RECURSIVE NextCall(_, _, _, _)
NextCall(contestList, quarters, ci, qi) ==
  IF ci > Len(contestList) THEN <<ci, 1>>
  ELSE IF ~HasNumbers(contestList[ci]) \/ qi > Len(quarters)
    THEN NextCall(contestList, quarters, ci + 1, 1)
  ELSE <<ci, qi>>

\* The arguments of the processQuarter call a run is in.
CallContest(r) == run[r].contestList[run[r].ci]
CallQuarter(r) == run[r].quartersToProcess[run[r].qi]
CallKey(r) == <<CallContest(r).id, CallQuarter(r)>>

\* Faulty variant: the completion block is entered only when every call of
\* the run succeeded.
AtCompletionAllSucceeded(rec) ==
  IF ~IsGameFinal(rec.espn) \/ \E i \in 1..Len(rec.results) : rec.results[i].error # NULL
    THEN Respond(rec, "processed")
  ELSE IF rec.gi > Len(rec.contestList) THEN [rec EXCEPT !.pc = "mark_finished"]
  ELSE [rec EXCEPT !.pc = "gc_load"]

\* "Handle game completion": where a run stands once the loops are over or one
\* contest's processGameComplete has returned.  A run that did not see the game
\* final answers "processed" straight away.
AtCompletion(rec) ==
  IF ~IsGameFinal(rec.espn) THEN Respond(rec, "processed")
  ELSE IF rec.gi > Len(rec.contestList) THEN [rec EXCEPT !.pc = "mark_finished"]
  ELSE [rec EXCEPT !.pc = "gc_load"]

\* Faulty variant: the completion step follows the quarters of each contest
\* rather than the whole outer loop.
AtLoopContestByContest(rec, ci, qi) ==
  LET at == NextCall(rec.contestList, rec.quartersToProcess, ci, qi) IN
    IF at[1] > Len(rec.contestList) \/ (at[1] > ci /\ Len(rec.results) > 0)
      THEN AtCompletion([rec EXCEPT !.ci = at[1], !.qi = 1, !.gi = 1])
      ELSE [rec EXCEPT !.ci = at[1], !.qi = at[2], !.pc = "pq_lookup"]

\* Faulty variant: a call that returned an error ends the run.
AtLoopUntilError(rec, ci, qi) ==
  LET at == NextCall(rec.contestList, rec.quartersToProcess, ci, qi) IN
    IF rec.result.error # NULL THEN Respond(rec, "error")
    ELSE IF at[1] > Len(rec.contestList)
      THEN AtCompletion([rec EXCEPT !.ci = at[1], !.qi = 1, !.gi = 1])
      ELSE [rec EXCEPT !.ci = at[1], !.qi = at[2], !.pc = "pq_lookup"]

\* "for (const contest of contests) ... for (const quarter of quartersToProcess)":
\* where a run stands at (ci, qi): in the next processQuarter call, or past the loops.
AtLoop(rec, ci, qi) ==
  LET at == NextCall(rec.contestList, rec.quartersToProcess, ci, qi) IN
    IF at[1] > Len(rec.contestList)
      THEN AtCompletion([rec EXCEPT !.ci = at[1], !.qi = 1, !.gi = 1])
      ELSE [rec EXCEPT !.ci = at[1], !.qi = at[2], !.pc = "pq_lookup"]

\* Faulty variant: soft-deleted contests are not filtered out.
IsActiveSuperBowlContestOrDeleted(row) ==
  /\ row.is_super_bowl
  /\ row.sport_type = "football"
  /\ row.status \in {"in_progress", "locked", "open"}

\* The contest query's filter.
IsActiveSuperBowlContest(row) ==
  /\ row.is_super_bowl
  /\ row.sport_type = "football"
  /\ row.status \in {"in_progress", "locked", "open"}
  /\ row.deleted_at = NULL

\* "Fetch all active Super Bowl contests"
FetchContests(r) ==
  /\ run[r].pc = "contests"
  /\ \/ /\ FaultOK
        /\ faults' = faults + 1
        /\ run' = [run EXCEPT ![r] =
                     Respond([@ EXCEPT !.logs = Log(r, "fetch_contests", "error")], "error")]
     \/ /\ UNCHANGED faults
        /\ LET ids == SelectSeq(ContestOrder, LAMBDA c : IsActiveSuperBowlContest(contests[c]))
               rows == [i \in 1..Len(ids) |-> contests[ids[i]]]
           IN run' = [run EXCEPT ![r] =
                        IF Len(rows) = 0
                          THEN Respond([@ EXCEPT !.logs = Log(r, "fetch_contests", "skipped")],
                                       "no_contests")
                          ELSE AtLoop([@ EXCEPT !.contestList = rows], 1, 1)]
  /\ UNCHANGED <<config, contests, squares, quarter_results, scores,
                 sendCalls, sendOK, lastCall, requests, resets>>

RowsOf(rows, contest_id, quarter) ==
  { row \in rows : row.contest_id = contest_id /\ row.quarter = quarter }

\* .select('id, winner_email_sent, owner_email_sent') ... .single(): data is
\* null unless exactly one row matches.
Existing(rows, contest_id, quarter) ==
  LET found == RowsOf(rows, contest_id, quarter) IN
    IF Cardinality(found) = 1
      THEN LET row == CHOOSE x \in found : TRUE IN
             [found |-> TRUE, winner_email_sent |-> row.winner_email_sent,
              owner_email_sent |-> row.owner_email_sent]
      ELSE NoExisting

\* Faulty variant: the early return is never taken.
AlreadyProcessedNever(existing) == FALSE

\* existing?.winner_email_sent && existing?.owner_email_sent
AlreadyProcessed(existing) ==
  existing.winner_email_sent /\ existing.owner_email_sent

\* Faulty variant: the lookup waits while another run is inside a call for the
\* same pair.
MayLookupLocked(r) ==
  /\ run[r].pc = "pq_lookup"
  /\ \A o \in RunIds \ {r} :
       ~(/\ run[o].pc \in {"pq_squares", "pq_upsert", "pq_scores", "pq_winner",
                            "pq_owner", "pq_flags", "pq_return"}
         /\ CallKey(o) = CallKey(r))

\* The lookup is a plain select: nothing makes it wait for another run.
MayLookup(r) == run[r].pc = "pq_lookup"

\* "Check if already processed (idempotency)"
PQ_Lookup(r) ==
  /\ MayLookup(r)
  /\ LET existing == Existing(quarter_results, CallContest(r).id, CallQuarter(r))
         call == [run[r] EXCEPT
                    !.existing = existing, !.winningSquare = NoSquare,
                    !.winnerEmailSent = FALSE, !.ownerEmailSent = FALSE,
                    !.winnerCall = FALSE, !.ownerCall = FALSE,
                    !.winnerOK = FALSE, !.ownerOK = FALSE,
                    !.callEffects = 0,
                    !.rowBefore = RowsOf(quarter_results, CallContest(r).id, CallQuarter(r))]
     IN run' = [run EXCEPT ![r] =
                  IF AlreadyProcessed(existing)
                    THEN [call EXCEPT !.result = [processed |-> FALSE, error |-> NULL],
                                      !.pc = "pq_return"]
                    ELSE [call EXCEPT !.pc = "pq_squares"]]
  /\ UNCHANGED <<config, contests, squares, quarter_results, scores,
                 sendCalls, sendOK, lastCall, requests, faults, resets>>

\* The rows .from('squares').select(...).eq('contest_id', contest.id) returns.
SquareRows(contest_id) ==
  { [id |-> SquareId(contest_id, i, j), row_index |-> i, col_index |-> j,
     claimant_email |-> IF SquareId(contest_id, i, j) \in DOMAIN squares
                          THEN squares[SquareId(contest_id, i, j)] ELSE NULL] :
      i \in 0..9, j \in 0..9 }

\* Faulty variant: the digit is taken for its own position.
NumberIndexIsDigit(numbers, digit) ==
  IF numbers = NoNumbers THEN -1 ELSE digit

\* contest.row_numbers?.indexOf(digit) ?? -1
NumberIndex(numbers, digit) ==
  IF numbers = NoNumbers THEN -1 ELSE IndexOf(numbers, digit)

\* "Find winning square using same logic as save-scores.ts"
WinningSquare(contest, rows, homeScore, awayScore) ==
  LET homeLastDigit == homeScore % 10
      awayLastDigit == awayScore % 10
      winningRowIndex == NumberIndex(contest.row_numbers, homeLastDigit)
      winningColIndex == NumberIndex(contest.col_numbers, awayLastDigit)
      hits == { sq \in rows : sq.row_index = winningRowIndex /\ sq.col_index = winningColIndex }
  IN IF winningRowIndex # -1 /\ winningColIndex # -1 /\ hits # {}
       THEN LET sq == CHOOSE x \in hits : TRUE IN
              [id |-> sq.id, claimant_email |-> sq.claimant_email]
       ELSE NoSquare

\* (contest[key] as number | null) || 0
getPayoutPercent(contest, quarter) ==
  IF quarter \in DOMAIN contest.payout /\ contest.payout[quarter] # NullInt
    THEN contest.payout[quarter] ELSE 0

\* Faulty variant: the pot is one square's price, not the 100 squares'.
getPrizeAmountOfOneSquare(contest, quarter) ==
  (contest.square_price * getPayoutPercent(contest, quarter)) \div 100

getPrizeAmount(contest, quarter) ==
  LET percent == getPayoutPercent(contest, quarter)
      totalPot == contest.square_price * 100
  IN (totalPot * percent) \div 100

\* "Fetch squares for this contest", then the winner computation (no await).
PQ_FetchSquares(r) ==
  /\ run[r].pc = "pq_squares"
  /\ \/ /\ FaultOK
        /\ faults' = faults + 1
        /\ run' = [run EXCEPT ![r].result = [processed |-> FALSE, error |-> "Failed to fetch squares"],
                              ![r].pc = "pq_return"]
     \/ /\ UNCHANGED faults
        /\ run' = [run EXCEPT
                     ![r].winningSquare =
                        WinningSquare(CallContest(r), SquareRows(CallContest(r).id),
                                      run[r].espn.homeScore, run[r].espn.awayScore),
                     ![r].pc = "pq_upsert"]
  /\ UNCHANGED <<config, contests, squares, quarter_results, scores,
                 sendCalls, sendOK, lastCall, requests, resets>>

\* "Build result record"
ResultRecord(contest, quarter, homeScore, awayScore, winningSquare) ==
  [contest_id |-> contest.id, quarter |-> quarter,
   home_score |-> homeScore, away_score |-> awayScore,
   home_last_digit |-> homeScore % 10, away_last_digit |-> awayScore % 10,
   winning_square_id |-> winningSquare.id,
   winner_email |-> winningSquare.claimant_email,
   prize_amount |-> getPrizeAmount(contest, quarter),
   payout_percent |-> getPayoutPercent(contest, quarter),
   winner_email_sent |-> FALSE, owner_email_sent |-> FALSE]

\* A row as the table stores it: the payload's columns, the generated id and the
\* two timestamp columns the payload does not carry.
StoredRow(rec, id, winner_at, owner_at) ==
  [id |-> id, contest_id |-> rec.contest_id, quarter |-> rec.quarter,
   home_score |-> rec.home_score, away_score |-> rec.away_score,
   home_last_digit |-> rec.home_last_digit, away_last_digit |-> rec.away_last_digit,
   winning_square_id |-> rec.winning_square_id, winner_email |-> rec.winner_email,
   prize_amount |-> rec.prize_amount, payout_percent |-> rec.payout_percent,
   winner_email_sent |-> rec.winner_email_sent, owner_email_sent |-> rec.owner_email_sent,
   winner_email_sent_at |-> winner_at, owner_email_sent_at |-> owner_at]

\* id UUID PRIMARY KEY DEFAULT gen_random_uuid(): a fresh id for the key.
NewId(rows, rec) ==
  <<rec.contest_id, rec.quarter, Cardinality(RowsOf(rows, rec.contest_id, rec.quarter))>>

\* Faulty variant: a plain insert with no conflict target.
InsertRow(rows, rec) == rows \cup { StoredRow(rec, NewId(rows, rec), NULL, NULL) }

\* .upsert(result, { onConflict: 'contest_id,quarter' }) under
\* UNIQUE(contest_id, quarter): the conflicting row takes the payload's columns
\* and keeps the others; without a conflict the row is inserted.
Upsert(rows, rec) ==
  LET old == RowsOf(rows, rec.contest_id, rec.quarter) IN
    IF old = {}
      THEN rows \cup { StoredRow(rec, NewId(rows, rec), NULL, NULL) }
      ELSE (rows \ old) \cup
           { StoredRow(rec, row.id, row.winner_email_sent_at, row.owner_email_sent_at) :
               row \in old }

\* "Upsert the result (idempotent)".  A quarter outside the CHECK constraint is
\* refused by the table.
PQ_Upsert(r) ==
  /\ run[r].pc = "pq_upsert"
  /\ \/ /\ IF CallQuarter(r) \in Quarters
             THEN FaultOK /\ faults' = faults + 1
             ELSE UNCHANGED faults
        /\ run' = [run EXCEPT ![r].result = [processed |-> FALSE, error |-> "Failed to upsert result"],
                              ![r].pc = "pq_return"]
        /\ UNCHANGED quarter_results
     \/ /\ CallQuarter(r) \in Quarters
        /\ UNCHANGED faults
        /\ quarter_results' =
             Upsert(quarter_results,
                    ResultRecord(CallContest(r), CallQuarter(r), run[r].espn.homeScore,
                                 run[r].espn.awayScore, run[r].winningSquare))
        /\ run' = [run EXCEPT ![r].pc = "pq_scores",
                              ![r].effects = @ + 1, ![r].callEffects = @ + 1]
  /\ UNCHANGED <<config, contests, squares, scores,
                 sendCalls, sendOK, lastCall, requests, resets>>

\* "Also upsert into the scores table (matches existing manual score entry)"
PQ_UpsertScores(r) ==
  /\ run[r].pc = "pq_scores"
  /\ scores' = { row \in scores : <<row.contest_id, row.quarter>> # CallKey(r) } \cup
               { [contest_id |-> CallContest(r).id, quarter |-> CallQuarter(r),
                  home_score |-> run[r].espn.homeScore, away_score |-> run[r].espn.awayScore,
                  winning_square_id |-> run[r].winningSquare.id] }
  /\ run' = [run EXCEPT ![r].pc = "pq_winner",
                        ![r].effects = @ + 1, ![r].callEffects = @ + 1]
  /\ UNCHANGED <<config, contests, squares, quarter_results,
                 sendCalls, sendOK, lastCall, requests, faults, resets>>

\* sendEmail: one transport call; a refused or failed call returns false.
\* The counters record the call and whether it was accepted.
Transport(key, ok) ==
  /\ sendCalls' = [sendCalls EXCEPT ![key] = @ + 1]
  /\ sendOK' = [sendOK EXCEPT ![key] = IF ok THEN @ + 1 ELSE @]
  /\ IF ok THEN UNCHANGED faults ELSE FaultOK /\ faults' = faults + 1

NoTransport == UNCHANGED <<sendCalls, sendOK, faults>>

\* Faulty variant: the need is recomputed from the record just upserted, whose
\* winner_email_sent is false.
NeedWinnerEmailFromRecord(existing) == TRUE

\* "If already partially processed, only send missing emails"
NeedWinnerEmail(existing) == ~existing.winner_email_sent
NeedOwnerEmail(existing) == ~existing.owner_email_sent

\* Faulty variant: without a send the flag keeps the value read at the start.
WinnerEmailSentUnsentKept(existing, to) == existing.winner_email_sent

\* winnerEmailSent when no transport call is made: "No email to send
\* (unclaimed square), mark as sent", else existing?.winner_email_sent || false.
WinnerEmailSentUnsent(existing, to) ==
  IF to = NULL THEN TRUE ELSE existing.winner_email_sent

\* "Send winner email"
PQ_SendWinner(r) ==
  /\ run[r].pc = "pq_winner"
  /\ LET to == run[r].winningSquare.claimant_email IN
       IF NeedWinnerEmail(run[r].existing) /\ to # NULL
         THEN \E ok \in BOOLEAN :
                /\ Transport(<<"winner", CallContest(r).id, CallQuarter(r)>>, ok)
                /\ run' = [run EXCEPT ![r].winnerEmailSent = ok, ![r].winnerCall = TRUE,
                                      ![r].winnerOK = ok, ![r].pc = "pq_owner",
                                      ![r].effects = @ + 1, ![r].callEffects = @ + 1]
         ELSE /\ NoTransport
              /\ run' = [run EXCEPT
                           ![r].winnerEmailSent = WinnerEmailSentUnsent(run[r].existing, to),
                           ![r].pc = "pq_owner"]
  /\ UNCHANGED <<config, contests, squares, quarter_results, scores,
                 lastCall, requests, resets>>

\* "Send owner email": the owner's address comes from auth.users; without one
\* the email is skipped and the flag keeps the value read at the start.
PQ_SendOwner(r) ==
  /\ run[r].pc = "pq_owner"
  /\ LET ownerEmail == OwnerEmail(CallContest(r).owner_id) IN
       IF NeedOwnerEmail(run[r].existing) /\ ownerEmail # NULL
         THEN \E ok \in BOOLEAN :
                /\ Transport(<<"owner", CallContest(r).id, CallQuarter(r)>>, ok)
                /\ run' = [run EXCEPT ![r].ownerEmailSent = ok, ![r].ownerCall = TRUE,
                                      ![r].ownerOK = ok, ![r].pc = "pq_flags",
                                      ![r].effects = @ + 1, ![r].callEffects = @ + 1]
         ELSE /\ NoTransport
              /\ run' = [run EXCEPT ![r].ownerEmailSent = run[r].existing.owner_email_sent,
                                    ![r].pc = "pq_flags"]
  /\ UNCHANGED <<config, contests, squares, quarter_results, scores,
                 lastCall, requests, resets>>

\* Faulty variant: one outcome is stored for both emails, true when either send
\* succeeded.
WithEmailFlagsShared(row, winnerEmailSent, ownerEmailSent) ==
  [row EXCEPT !.winner_email_sent = winnerEmailSent \/ ownerEmailSent,
              !.owner_email_sent = winnerEmailSent \/ ownerEmailSent,
              !.winner_email_sent_at = IF winnerEmailSent \/ ownerEmailSent THEN "now" ELSE NULL,
              !.owner_email_sent_at = IF winnerEmailSent \/ ownerEmailSent THEN "now" ELSE NULL]

\* Faulty variant: the final update matches no row.
WithEmailFlagsUnmatched(row, winnerEmailSent, ownerEmailSent) == row

\* The columns the final update sets on a row.
WithEmailFlags(row, winnerEmailSent, ownerEmailSent) ==
  [row EXCEPT !.winner_email_sent = winnerEmailSent,
              !.owner_email_sent = ownerEmailSent,
              !.winner_email_sent_at = IF winnerEmailSent THEN "now" ELSE NULL,
              !.owner_email_sent_at = IF ownerEmailSent THEN "now" ELSE NULL]

\* "Update email sent status": .update({...}).eq('contest_id', ...).eq('quarter', ...)
PQ_UpdateFlags(r) ==
  /\ run[r].pc = "pq_flags"
  /\ quarter_results' =
       { IF <<row.contest_id, row.quarter>> = CallKey(r)
           THEN WithEmailFlags(row, run[r].winnerEmailSent, run[r].ownerEmailSent)
           ELSE row : row \in quarter_results }
  /\ run' = [run EXCEPT ![r].result = [processed |-> TRUE, error |-> NULL],
                        ![r].pc = "pq_return",
                        ![r].effects = @ + 1, ![r].callEffects = @ + 1]
  /\ UNCHANGED <<config, contests, squares, scores,
                 sendCalls, sendOK, lastCall, requests, faults, resets>>

\* What a returned call leaves behind for the pair.
CallSummary(r) ==
  LET left == Existing(quarter_results, CallContest(r).id, CallQuarter(r)) IN
    [valid |-> TRUE, contest |-> CallContest(r),
     homeScore |-> run[r].espn.homeScore, awayScore |-> run[r].espn.awayScore,
     squares |-> squares, error |-> run[r].result.error,
     winnerOK |-> run[r].winnerOK, ownerOK |-> run[r].ownerOK,
     winner_email_sent |-> left.winner_email_sent,
     owner_email_sent |-> left.owner_email_sent]

\* The loop body after the call: results.push(...) and the log entry.
RecordResult(r) ==
  /\ run[r].pc = "pq_return"
  /\ run' = [run EXCEPT ![r] =
               AtLoop([@ EXCEPT
                         !.results = Append(@, [contestId |-> CallContest(r).id,
                                                quarter |-> CallQuarter(r),
                                                processed |-> run[r].result.processed,
                                                error |-> run[r].result.error]),
                         !.logs = IF run[r].result.error # NULL
                                    THEN Log(r, "process_quarter", "error")
                                  ELSE IF run[r].result.processed
                                    THEN Log(r, "process_quarter", "success")
                                  ELSE @],
                      run[r].ci, run[r].qi + 1)]
  /\ lastCall' = IF CallKey(r) \in DOMAIN lastCall
                   THEN [lastCall EXCEPT ![CallKey(r)] = CallSummary(r)]
                   ELSE lastCall
  /\ UNCHANGED <<config, contests, squares, quarter_results, scores,
                 sendCalls, sendOK, requests, faults, resets>>

\* ------------------------------------------------------ processGameComplete

GameContest(r) == run[r].contestList[run[r].gi]

\* processGameComplete: load the contest's results and the owner; return when
\* there is no result or no owner address.
GC_Load(r) ==
  /\ run[r].pc = "gc_load"
  /\ LET results == { row \in quarter_results : row.contest_id = GameContest(r).id }
         ownerEmail == OwnerEmail(GameContest(r).owner_id)
     IN run' = [run EXCEPT ![r] =
                  IF results = {} \/ ownerEmail = NULL
                    THEN AtCompletion([@ EXCEPT !.logs = Log(r, "game_complete", "success"),
                                                !.gi = @ + 1])
                    ELSE [@ EXCEPT !.pc = "gc_send"]]
  /\ UNCHANGED <<config, contests, squares, quarter_results, scores,
                 sendCalls, sendOK, lastCall, requests, faults, resets>>

\* Faulty variant: only the quarters with a known winner are added up.
RECURSIVE TotalPayoutOfWinners(_)
TotalPayoutOfWinners(results) ==
  IF results = {} THEN 0
  ELSE LET row == CHOOSE x \in results : TRUE IN
         (IF row.winner_email = NULL THEN 0 ELSE row.prize_amount)
           + TotalPayoutOfWinners(results \ {row})

\* winners.reduce((sum, w) => sum + w.prizeAmount, 0), prizeAmount being
\* r.prize_amount || 0
RECURSIVE TotalPayout(_)
TotalPayout(results) ==
  IF results = {} THEN 0
  ELSE LET row == CHOOSE x \in results : TRUE IN
         (IF row.prize_amount = NullInt THEN 0 ELSE row.prize_amount)
           + TotalPayout(results \ {row})

\* processGameComplete: the summary email with its total; the outcome of the
\* send is not looked at.
GC_Send(r) ==
  /\ run[r].pc = "gc_send"
  /\ \E ok \in BOOLEAN : Transport(<<"summary", GameContest(r).id, "all">>, ok)
  /\ run' = [run EXCEPT ![r].pc = "gc_mark", ![r].effects = @ + 1,
                        ![r].totalPayout =
                           TotalPayout({ row \in quarter_results :
                                           row.contest_id = GameContest(r).id })]
  /\ UNCHANGED <<config, contests, squares, quarter_results, scores,
                 lastCall, requests, resets>>

\* processGameComplete: "Mark contest as completed".  The update's error is not
\* read: when the store refuses it the function returns as after a success.
GC_Mark(r) ==
  /\ run[r].pc = "gc_mark"
  /\ \/ /\ UNCHANGED faults
        /\ contests' = [contests EXCEPT ![GameContest(r).id].status = "completed"]
        /\ run' = [run EXCEPT ![r] =
                     AtCompletion([@ EXCEPT !.logs = Log(r, "game_complete", "success"),
                                            !.gi = @ + 1, !.effects = @ + 1])]
     \/ /\ FaultOK
        /\ faults' = faults + 1
        /\ UNCHANGED contests
        /\ run' = [run EXCEPT ![r] =
                     AtCompletion([@ EXCEPT !.logs = Log(r, "game_complete", "success"),
                                            !.gi = @ + 1])]
  /\ UNCHANGED <<config, squares, quarter_results, scores,
                 sendCalls, sendOK, lastCall, requests, resets>>

\* "Mark game as finished in config", then the processed response.
MarkGameFinished(r) ==
  /\ run[r].pc = "mark_finished"
  /\ config' = [config EXCEPT !.game_finished = TRUE]
  /\ run' = [run EXCEPT ![r] = Respond([@ EXCEPT !.effects = @ + 1], "processed")]
  /\ UNCHANGED <<contests, squares, quarter_results, scores,
                 sendCalls, sendOK, lastCall, requests, faults, resets>>

\* ------------------------------------------------------------ admin actions

NoRunInFlight == \A r \in RunIds : run[r].pc \in {"idle", "done"}

\* toggleScoreChecking(enabled)
toggleScoreChecking(enabled) ==
  /\ config.enabled # enabled
  /\ config' = [config EXCEPT !.enabled = enabled]
  /\ UNCHANGED <<contests, squares, quarter_results, scores, run,
                 sendCalls, sendOK, lastCall, requests, faults, resets>>

\* resendQuarterEmails(resultId): clear the row's flags and timestamps, then
\* triggerScoreCheck(undefined, true), a POST with force and no quarter, here
\* served by run r.
resendQuarterEmails(r, resultId) ==
  /\ run[r].pc \in {"idle", "done"}
  /\ resets < MaxResets
  /\ requests < MaxRequests
  /\ \E row \in quarter_results : row.id = resultId
  /\ quarter_results' =
       { IF row.id = resultId THEN WithEmailFlags(row, FALSE, FALSE) ELSE row :
           row \in quarter_results }
  /\ lastCall' = [k \in DOMAIN lastCall |->
                    IF \E row \in quarter_results :
                         row.id = resultId /\ k = <<row.contest_id, row.quarter>>
                      THEN NoCall ELSE lastCall[k]]
  /\ run' = [run EXCEPT ![r] =
               [IdleRun EXCEPT !.pc = "config", !.method = "POST", !.forceProcess = TRUE,
                               !.resent = CHOOSE k \in Contests \X Quarters :
                                            \E row \in quarter_results :
                                              /\ row.id = resultId
                                              /\ k = <<row.contest_id, row.quarter>>,
                               !.before = Before(quarter_results', scores, contests,
                                                 config, sendCalls)]]
  /\ resets' = resets + 1
  /\ requests' = requests + 1
  /\ UNCHANGED <<config, contests, squares, scores, sendCalls, sendOK, faults>>

\* updateSquareStatus({ squareId, contestId, newStatus }): "Clear all claimant
\* info when releasing square"; paid and pending leave the claimant alone.
updateSquareStatus(squareId, newStatus) ==
  /\ squareId \in DOMAIN squares
  /\ newStatus \in {"available", "pending", "paid"}
  /\ squares' = IF newStatus = "available"
                  THEN [squares EXCEPT ![squareId] = NULL]
                  ELSE squares
  /\ UNCHANGED <<config, contests, quarter_results, scores, run,
                 sendCalls, sendOK, lastCall, requests, faults, resets>>

\* deleteContest(contestId): "Soft delete by setting deleted_at"
deleteContest(contestId) ==
  /\ contests' = [contests EXCEPT ![contestId].deleted_at = "now"]
  /\ UNCHANGED <<config, squares, quarter_results, scores, run,
                 sendCalls, sendOK, lastCall, requests, faults, resets>>

\* ---------------------------------------------------------- specifications

\* The steps of run r after its request has been accepted.
Step(r) ==
  \/ CheckConfig(r)
  \/ UpdateLastChecked(r)
  \/ ResolveQuarters(r)
  \/ FetchContests(r)
  \/ PQ_Lookup(r)
  \/ PQ_FetchSquares(r)
  \/ PQ_Upsert(r)
  \/ PQ_UpsertScores(r)
  \/ PQ_SendWinner(r)
  \/ PQ_SendOwner(r)
  \/ PQ_UpdateFlags(r)
  \/ RecordResult(r)
  \/ GC_Load(r)
  \/ GC_Send(r)
  \/ GC_Mark(r)
  \/ MarkGameFinished(r)

\* Spec: runs one after the other (the scheduled job's normal mode), admin
\* actions between runs.  The feed follows a game: waiting, the end of the
\* first quarter (also reported with period 0), the final whistle, or no answer.
GameFeed ==
  { FeedError, FeedNotFound,
    Snapshot("STATUS_IN_PROGRESS", 2, FALSE, <<7, 3>>),
    Snapshot("STATUS_END_PERIOD", 0, FALSE, <<7, 3>>),
    Snapshot("STATUS_END_PERIOD", 1, FALSE, <<7, 3>>),
    Snapshot("STATUS_FINAL", 4, TRUE, <<21, 17>>) }

GameRequests ==
  { req \in Requests : req.quarter = NULL }

Next ==
  \/ \E req \in GameRequests : Request(1, req)
  \/ \E answer \in GameFeed : fetchESPNScores(1, answer)
  \/ Step(1)
  \/ NoRunInFlight /\ \E enabled \in BOOLEAN : toggleScoreChecking(enabled)
  \/ NoRunInFlight /\ \E row \in quarter_results : resendQuarterEmails(1, row.id)

Spec == Init /\ [][Next]_vars

\* SpecSingle: one request served from the initial store without any failure,
\* over every request, every status the feed can report and every shape of the
\* second contest.
InitSingle ==
  /\ InitStore({ContestC1}, ContestC2Variants)
  /\ faults = MaxFaults

SingleFeed == { FeedNotFound } \cup FeedFound

NextSingle ==
  \/ requests = 0 /\ \E req \in Requests : Request(1, req)
  \/ \E answer \in SingleFeed : fetchESPNScores(1, answer)
  \/ Step(1)
  \/ requests = 0 /\ \E enabled \in BOOLEAN : toggleScoreChecking(enabled)

SpecSingle == InitSingle /\ [][NextSingle]_vars

\* SpecOverlap: two runs in flight at once (a manual trigger fired while
\* another run is still going), their steps interleaved in every order, at the
\* end of the first quarter and at halftime.
OverlapFeed ==
  { Snapshot("STATUS_END_PERIOD", 1, FALSE, <<7, 3>>),
    Snapshot("STATUS_HALFTIME", 2, FALSE, <<21, 17>>) }

OverlapRequests == { req \in Requests : req.quarter = NULL /\ req.force }

\* A request reads nothing from the store, so a run that arrives later behaves
\* as one that arrived before the first write and took its next step later:
\* the overlapping runs are started while the results table is still empty.
NextOverlap ==
  \E r \in RunIds :
    \/ \E req \in OverlapRequests : quarter_results = {} /\ Request(r, req)
    \/ CheckConfig(r)
    \/ \E answer \in OverlapFeed : fetchESPNScores(r, answer)
    \/ UpdateLastChecked(r)
    \/ ResolveQuarters(r)
    \/ FetchContests(r)
    \/ PQ_Lookup(r)
    \/ PQ_FetchSquares(r)
    \/ PQ_Upsert(r)
    \/ PQ_UpsertScores(r)
    \/ PQ_SendWinner(r)
    \/ PQ_SendOwner(r)
    \/ PQ_UpdateFlags(r)
    \/ RecordResult(r)

InitOverlap == InitWith({ContestC1}, { row \in ContestC2Variants : ~row.is_super_bowl })

SpecOverlap == InitOverlap /\ [][NextOverlap]_vars

\* SpecGame: game day with the owner at work between the runs: squares are
\* released, contests deleted.  The feed reports the end of the first quarter
\* and the final whistle, with other scores.  The second contest is a Super
\* Bowl contest without numbers, or no Super Bowl contest.
GameDayFeed ==
  { Snapshot("STATUS_END_PERIOD", 1, FALSE, <<7, 3>>),
    Snapshot("STATUS_FINAL", 4, TRUE, <<21, 18>>) }

NextGame ==
  \/ \E req \in GameRequests : Request(1, req)
  \/ \E answer \in GameDayFeed : fetchESPNScores(1, answer)
  \/ Step(1)
  \/ NoRunInFlight /\ toggleScoreChecking(TRUE)
  \/ NoRunInFlight /\ \E newStatus \in {"available", "paid"} :
                         updateSquareStatus(SquareId("c1", 0, 0), newStatus)
  \/ NoRunInFlight /\ deleteContest("c1")

InitGame ==
  InitWith({ ContestC1 },
           { row \in ContestC2Variants : ~row.is_super_bowl \/ ~HasNumbers(row) })

SpecGame == InitGame /\ [][NextGame]_vars

\* SpecRetry: the scheduled job alone, switched on by the admin and left on,
\* calling for ever while the game goes from the end of the first quarter to the
\* final whistle; at most MaxFaults calls to the store, the feed or the email
\* transport fail, all others succeed.
RetryFeed ==
  { FeedError,
    Snapshot("STATUS_END_PERIOD", 1, FALSE, <<7, 3>>),
    Snapshot("STATUS_FINAL", 4, TRUE, <<21, 17>>) }

NextRetry ==
  \/ ScheduledRun(1)
  \/ \E answer \in RetryFeed : fetchESPNScores(1, answer)
  \/ Step(1)
  \/ NoRunInFlight /\ toggleScoreChecking(TRUE)

InitRetry == InitWith({ContestC1}, { row \in ContestC2Variants : ~row.is_super_bowl })

SpecRetry == InitRetry /\ [][NextRetry]_vars /\ WF_vars(NextRetry)

\* ------------------------------------------------------- winner calculation

\* saveScores: "Verify contest is in progress" and "Verify row and column
\* numbers are assigned"; the caller is the contest's owner.
SaveScoresAccepts(contest) ==
  contest.status = "in_progress" /\ HasNumbers(contest)

\* Faulty variant: the last digit is used as the index itself.
SaveScoresWinningSquareIdByDigit(contest, rows, homeScore, awayScore) ==
  LET hits == { sq \in rows : sq.row_index = homeScore % 10 /\ sq.col_index = awayScore % 10 }
  IN IF hits # {} THEN (CHOOSE x \in hits : TRUE).id ELSE NullId

\* saveScores, "Process each score entry": winningSquare?.id || null
SaveScoresWinningSquareId(contest, rows, homeScore, awayScore) ==
  LET homeLastDigit == homeScore % 10
      awayLastDigit == awayScore % 10
      winningRowIndex == IndexOf(contest.row_numbers, homeLastDigit)
      winningColIndex == IndexOf(contest.col_numbers, awayLastDigit)
      hits == { sq \in rows : sq.row_index = winningRowIndex /\ sq.col_index = winningColIndex }
  IN IF winningRowIndex # -1 /\ winningColIndex # -1 /\ hits # {}
       THEN (CHOOSE x \in hits : TRUE).id
       ELSE NullId

\* Number assignments a contest row can hold: three permutations of 0..9, an
\* array that lacks most digits, and none.
NumberChoices ==
  { <<7, 3, 0, 1, 2, 4, 5, 6, 8, 9>>,
    <<0, 1, 2, 3, 4, 5, 6, 7, 8, 9>>,
    <<9, 8, 7, 6, 5, 4, 3, 2, 1, 0>>,
    <<5, 6>>,
    NoNumbers }

\* Square prices and payout percents a contest row can hold (an unset percent
\* is NULL).
PrizeChoices ==
  { [square_price |-> 10,
     payout |-> [q \in Quarters |-> CASE q = "q1" -> 25 [] q = "q2" -> NullInt
                                      [] q = "q3" -> 0 [] OTHER -> 50]],
    [square_price |-> 3, payout |-> [q \in Quarters |-> 33]] }

WinnerContests ==
  { [ContestC1 EXCEPT !.status = st, !.row_numbers = rn, !.col_numbers = cn,
                      !.square_price = pz.square_price, !.payout = pz.payout] :
      st \in {"in_progress", "open"}, rn \in NumberChoices, cn \in NumberChoices,
      pz \in PrizeChoices }

\* The squares rows of a contest at the given cells.
SquareRowsAt(contest_id, cells) ==
  { [id |-> SquareId(contest_id, c[1], c[2]), row_index |-> c[1], col_index |-> c[2],
     claimant_email |-> ClaimantEmail(contest_id, c[1], c[2])] : c \in cells }

\* The squares table of the contest: the full grid, the grid without its
\* diagonal, and no row at all.
SquareRowChoices ==
  { SquareRowsAt("c1", (0..9) \X (0..9)),
    SquareRowsAt("c1", { c \in (0..9) \X (0..9) : c[1] # c[2] }),
    {} }

\* Both paths compute the winner of one score entry from the same contest row,
\* squares rows and scores, and processQuarter builds its result record.
SelectWinner(r, rows, quarter, homeScore, awayScore) ==
  /\ run[r].pc = "idle"
  /\ run' = [run EXCEPT ![r] =
               [IdleRun EXCEPT
                  !.pc = "selected",
                  !.contestList = <<contests["c1"]>>,
                  !.quartersToProcess = <<quarter>>,
                  !.record = ResultRecord(contests["c1"], quarter, homeScore, awayScore,
                                          WinningSquare(contests["c1"], rows,
                                                        homeScore, awayScore)),
                  !.espn = Snapshot("STATUS_END_PERIOD", 1, FALSE, <<homeScore, awayScore>>),
                  !.squareRows = rows,
                  !.winningSquare = WinningSquare(contests["c1"], rows, homeScore, awayScore),
                  !.manual =
                     IF SaveScoresAccepts(contests["c1"])
                       THEN [accepted |-> TRUE,
                             winningSquareId |->
                               SaveScoresWinningSquareId(contests["c1"], rows,
                                                         homeScore, awayScore)]
                       ELSE NoManual]]
  /\ UNCHANGED <<config, contests, squares, quarter_results, scores,
                 sendCalls, sendOK, lastCall, requests, faults, resets>>

InitWinner == InitWith(WinnerContests, { row \in ContestC2Variants : ~row.is_super_bowl })

NextWinner ==
  \E rows \in SquareRowChoices, quarter \in Quarters,
     homeScore \in 0..MaxScore, awayScore \in 0..MaxScore :
    SelectWinner(1, rows, quarter, homeScore, awayScore)

SpecWinner == InitWinner /\ [][NextWinner]_vars

\* ------------------------------------------------------------------ properties

\* A processQuarter call of run r has returned and its result is not yet recorded.
Returned(r) == run[r].pc = "pq_return"

\* The previous returned call for the pair of run r's call, when nothing but the
\* pipeline has written to the pair since.
PreviousCall(r) == lastCall[CallKey(r)]

HasPreviousCall(r) ==
  Returned(r) /\ CallKey(r) \in DOMAIN lastCall /\ PreviousCall(r).valid

\* The call of run r was made with the inputs of the previous call.
SameInputs(r) ==
  /\ HasPreviousCall(r)
  /\ PreviousCall(r).contest = CallContest(r)
  /\ PreviousCall(r).homeScore = run[r].espn.homeScore
  /\ PreviousCall(r).awayScore = run[r].espn.awayScore
  /\ PreviousCall(r).squares = squares

CallRows(r) == RowsOf(quarter_results, CallContest(r).id, CallQuarter(r))

AfterWinnerOnly(r) ==
  /\ HasPreviousCall(r)
  /\ PreviousCall(r).winner_email_sent /\ ~PreviousCall(r).owner_email_sent
  /\ run[r].result.processed

\* C2: a call makes a transport call only for an email whose flag was false in
\* the row it looked up at its start; after a call that left (true, false) the
\* next call that runs to the end makes no winner transport call, and makes an
\* owner transport call exactly when the owner's address can be resolved.
C2_OnlyMissingEmails ==
  \A r \in RunIds :
    Returned(r) =>
      /\ run[r].winnerCall => ~run[r].existing.winner_email_sent
      /\ run[r].ownerCall => ~run[r].existing.owner_email_sent
      /\ AfterWinnerOnly(r) =>
           /\ ~run[r].winnerCall
           /\ run[r].ownerCall <=> (OwnerEmail(CallContest(r).owner_id) # NULL)

\* The next call after (true, false) sends the owner email only.
C2_Witness ==
  \E r \in RunIds :
    AfterWinnerOnly(r) /\ run[r].ownerCall /\ ~run[r].winnerCall /\ run[r].ownerOK

\* C2 as stated: after a call that left (true, false) the next call always
\* makes an owner transport call and no winner transport call.
C2_AsStated ==
  \A r \in RunIds :
    AfterWinnerOnly(r) => run[r].ownerCall /\ ~run[r].winnerCall

\* C3: a call that finds the pair's row with both flags true returns
\* processed: false having written nothing and sent nothing; the stored row is
\* the row it found.
C3_ShortCircuit ==
  \A r \in RunIds :
    ( /\ Returned(r)
      /\ run[r].existing.found
      /\ run[r].existing.winner_email_sent
      /\ run[r].existing.owner_email_sent )
      => /\ run[r].result = [processed |-> FALSE, error |-> NULL]
         /\ run[r].callEffects = 0
         /\ ~run[r].winnerCall /\ ~run[r].ownerCall
         /\ CallRows(r) = run[r].rowBefore

\* A short-circuited call whose scores differ from the stored ones.
C3_Witness ==
  \E r \in RunIds :
    /\ Returned(r)
    /\ run[r].existing.found
    /\ run[r].existing.winner_email_sent /\ run[r].existing.owner_email_sent
    /\ \E row \in CallRows(r) : row.home_score # run[r].espn.homeScore

\* C4: the results table never holds two rows for one (contest, quarter),
\* overlapping runs included.
C4_OneRowPerPair ==
  \A c \in Contests, q \in Quarters :
    Cardinality(RowsOf(quarter_results, c, q)) <= 1

\* A run is inside a processQuarter call, past the upsert.
PastUpsert(r) == run[r].pc \in {"pq_scores", "pq_winner", "pq_owner", "pq_flags"}

\* Both runs have upserted the same pair and neither call has returned.
C4_Witness ==
  /\ PastUpsert(1) /\ PastUpsert(2)
  /\ CallKey(1) = CallKey(2)
  /\ Cardinality(CallRows(1)) = 1

\* C5 as stated: no step of the pipeline turns a stored email flag from true to
\* false; only the manual reset does.
C5_FlagsNeverCleared ==
  [][ resets' = resets =>
        \A old \in quarter_results :
          \A new \in RowsOf(quarter_results', old.contest_id, old.quarter) :
            /\ old.winner_email_sent => new.winner_email_sent
            /\ old.owner_email_sent => new.owner_email_sent ]_vars

\* C6: neither the flag read at the start of a call nor the flag write at its
\* end ever waits for the other run, whatever that run is doing.
C6_NoLock ==
  \A r \in RunIds :
    /\ run[r].pc = "pq_lookup" => ENABLED PQ_Lookup(r)
    /\ run[r].pc = "pq_flags" => ENABLED PQ_UpdateFlags(r)

\* Both runs read the pair's winner flag as not sent and both had the same
\* winner email accepted.
C6_Witness ==
  /\ Returned(1) /\ Returned(2)
  /\ CallKey(1) = CallKey(2)
  /\ ~run[1].existing.winner_email_sent /\ ~run[2].existing.winner_email_sent
  /\ run[1].winnerOK /\ run[2].winnerOK
  /\ sendOK[<<"winner", CallContest(1).id, CallQuarter(1)>>] = 2

\* A run has been through quarter resolution.
Resolved(r) ==
  /\ run[r].espn.found
  /\ run[r].pc \notin {"idle", "config", "fetch", "update_config", "resolve"}

\* The quarters of the processQuarter calls a run has recorded for a contest.
ProcessedQuarters(r, contest_id) ==
  LET calls == SelectSeq(run[r].results, LAMBDA e : e.contestId = contest_id) IN
    [i \in 1..Len(calls) |-> calls[i].quarter]

\* The run's list is `list`, and a run that ends "processed" has called
\* processQuarter for exactly these quarters, in this order, for every contest
\* with assigned numbers.
Processes(r, list) ==
  /\ run[r].quartersToProcess = list
  /\ (run[r].pc = "done" /\ run[r].status = "processed") =>
       \A i \in 1..Len(run[r].contestList) :
         HasNumbers(run[r].contestList[i]) =>
           ProcessedQuarters(r, run[r].contestList[i].id) = list

NoOverride(r) == Resolved(r) /\ run[r].manualQuarter = NULL

FeedSaysFinal(r) == run[r].espn.statusName = "STATUS_FINAL" \/ run[r].espn.completed

\* C7: without a manual quarter and with the game not final, end-of-period or
\* halftime at period p gives the quarters of periods 1..min(p, 4) in ascending
\* order, and period 0 gives the response nothing_to_process.
C7_QuarterSweep ==
  \A r \in RunIds :
    ( /\ NoOverride(r)
      /\ ~FeedSaysFinal(r)
      /\ run[r].espn.statusName \in {"STATUS_END_PERIOD", "STATUS_HALFTIME"} )
      => IF run[r].espn.period = 0
           THEN /\ run[r].pc = "done"
                /\ run[r].status = "nothing_to_process"
                /\ run[r].results = <<>>
           ELSE Processes(r, SubSeq(ALL_QUARTERS, 1, Min(run[r].espn.period, 4)))

\* End of period 3: the run has processed q1, q2, q3 for contest c1.
C7_Witness ==
  \E r \in RunIds :
    /\ NoOverride(r)
    /\ run[r].espn.statusName = "STATUS_END_PERIOD" /\ run[r].espn.period = 3
    /\ ~run[r].espn.completed
    /\ run[r].pc = "done" /\ run[r].status = "processed"
    /\ ProcessedQuarters(r, "c1") = <<"q1", "q2", "q3">>

\* C8: without a manual quarter, a final status code or a set completed flag
\* gives all four quarters in the order q1, q2, q3, final, whatever the period.
C8_FinalSweep ==
  \A r \in RunIds :
    (NoOverride(r) /\ FeedSaysFinal(r)) => Processes(r, ALL_QUARTERS)

\* The completed flag alone, at period 2, has made the run process all four.
C8_Witness ==
  \E r \in RunIds :
    /\ NoOverride(r)
    /\ run[r].espn.completed /\ run[r].espn.statusName = "STATUS_IN_PROGRESS"
    /\ run[r].espn.period = 2
    /\ run[r].pc = "done" /\ run[r].status = "processed"
    /\ ProcessedQuarters(r, "c1") = ALL_QUARTERS

\* C9: a manual quarter makes the list exactly that quarter whatever the feed
\* says, so the run never answers in_progress or nothing_to_process; without it
\* a mid-quarter feed ends the run with in_progress and no call.
C9_ManualQuarter ==
  \A r \in RunIds :
    /\ (Resolved(r) /\ run[r].manualQuarter # NULL) =>
         /\ Processes(r, <<run[r].manualQuarter>>)
         /\ run[r].status \notin {"in_progress", "nothing_to_process"}
    /\ ( /\ NoOverride(r)
         /\ ~FeedSaysFinal(r)
         /\ run[r].espn.statusName \notin {"STATUS_END_PERIOD", "STATUS_HALFTIME"} )
         => /\ run[r].pc = "done"
            /\ run[r].status = "in_progress"
            /\ run[r].results = <<>>

\* q3 requested and processed while the feed reports the game in progress.
C9_Witness ==
  \E r \in RunIds :
    /\ Resolved(r)
    /\ run[r].manualQuarter = "q3"
    /\ run[r].espn.statusName = "STATUS_IN_PROGRESS" /\ ~run[r].espn.completed
    /\ run[r].pc = "done" /\ run[r].status = "processed"
    /\ ProcessedQuarters(r, "c1") = <<"q3">>

QuietStatuses ==
  {"no_game", "in_progress", "nothing_to_process", "no_contests", "disabled", "finished"}

\* C10: a run that answers no_game, in_progress, nothing_to_process,
\* no_contests, disabled or finished has called processQuarter for nothing and
\* leaves the results, the scores, the emails sent, every contest's status and
\* game_finished as they were when its request arrived.
C10_QuietRun ==
  \A r \in RunIds :
    (run[r].pc = "done" /\ run[r].status \in QuietStatuses) =>
      /\ run[r].results = <<>>
      /\ run[r].effects = 0
      /\ quarter_results = run[r].before.quarter_results
      /\ scores = run[r].before.scores
      /\ sendCalls = run[r].before.sendCalls
      /\ \A c \in Contests : contests[c].status = run[r].before.contests[c].status
      /\ config.game_finished = run[r].before.game_finished

\* A forced run after the game was finalized finds no eligible contest and
\* leaves the stored results alone.
C10_Witness ==
  \E r \in RunIds :
    /\ run[r].pc = "done" /\ run[r].status = "no_contests"
    /\ quarter_results # {}
    /\ config.game_finished

\* The winner calculation has been applied to the inputs held in run r.
Selected(r) == run[r].pc = "selected"

IsPermutation(numbers) ==
  Len(numbers) = 10 /\ { numbers[i] : i \in 1..Len(numbers) } = 0..9

\* The 0-based positions at which an array holds a digit.
Positions(numbers, digit) == { i \in 0..(Len(numbers) - 1) : numbers[i + 1] = digit }

\* The ids of the squares rows at a cell.
IdsAt(rows, i, j) == { sq.id : sq \in { x \in rows : x.row_index = i /\ x.col_index = j } }

\* C11: with row_numbers and col_numbers permutations of 0..9, the winning
\* square is the row at (i, j) where row_numbers[i] is the home score's last
\* digit and col_numbers[j] the away score's, and its id is null when no row
\* exists at that cell; whenever a digit is at no position the id is null.
C11_WinningSquare ==
  \A r \in RunIds :
    Selected(r) =>
      LET contest == run[r].contestList[1]
          rowAt == Positions(contest.row_numbers, run[r].espn.homeScore % 10)
          colAt == Positions(contest.col_numbers, run[r].espn.awayScore % 10)
          id == run[r].record.winning_square_id
      IN /\ (IsPermutation(contest.row_numbers) /\ IsPermutation(contest.col_numbers)) =>
              \E i \in rowAt, j \in colAt :
                /\ rowAt = {i} /\ colAt = {j}
                /\ IF IdsAt(run[r].squareRows, i, j) = {}
                     THEN id = NullId
                     ELSE id \in IdsAt(run[r].squareRows, i, j)
         /\ (rowAt = {} \/ colAt = {}) => id = NullId

\* Home 11 and away 12: digit 1 is at position 3 of the row numbers and digit 2
\* at position 2 of the column numbers, so square (3, 2) wins.
C11_Witness ==
  \E r \in RunIds :
    /\ Selected(r)
    /\ run[r].contestList[1].row_numbers = <<7, 3, 0, 1, 2, 4, 5, 6, 8, 9>>
    /\ run[r].contestList[1].col_numbers = <<0, 1, 2, 3, 4, 5, 6, 7, 8, 9>>
    /\ run[r].espn.homeScore = 11 /\ run[r].espn.awayScore = 12
    /\ run[r].record.winning_square_id = SquareId("c1", 3, 2)

\* C12: whenever saveScores accepts the contest, the square id it selects is
\* the one processQuarter selects from the same contest, squares and scores,
\* a null id included; for a contest without numbers neither selects a square.
C12_SamePathsSameWinner ==
  \A r \in RunIds :
    Selected(r) =>
      /\ run[r].manual.accepted =>
           run[r].manual.winningSquareId = run[r].record.winning_square_id
      /\ ~HasNumbers(run[r].contestList[1]) =>
           ~run[r].manual.accepted /\ run[r].record.winning_square_id = NullId

\* Both paths select square (3, 2), which is not the cell the digits name.
C12_Witness ==
  \E r \in RunIds :
    /\ Selected(r)
    /\ run[r].manual.accepted
    /\ run[r].espn.homeScore = 11 /\ run[r].espn.awayScore = 12
    /\ run[r].manual.winningSquareId = SquareId("c1", 3, 2)
    /\ run[r].record.winning_square_id = SquareId("c1", 3, 2)

\* C13: the prize_amount of the result record is square_price x 100 x
\* payout_percent / 100 with the quarter's payout percent, 0 when unset,
\* whatever the squares rows and whether or not a winning square exists.
C13_PrizeAmount ==
  \A r \in RunIds :
    Selected(r) =>
      LET contest == run[r].contestList[1]
          stored == contest.payout[run[r].quartersToProcess[1]]
          percent == IF stored = NullInt THEN 0 ELSE stored
      IN /\ run[r].record.payout_percent = percent
         /\ run[r].record.prize_amount * 100 = contest.square_price * 100 * percent

\* Price 10 at 25 percent gives 250 although no square row wins.
C13_Witness ==
  \E r \in RunIds :
    /\ Selected(r)
    /\ run[r].contestList[1].square_price = 10
    /\ run[r].record.payout_percent = 25
    /\ run[r].record.prize_amount = 250
    /\ run[r].record.winning_square_id = NullId
    /\ run[r].squareRows = {}

\* The prize columns of a row are the contest's price and payout for its quarter.
PrizeWritten(row) ==
  LET contest == contests[row.contest_id]
      stored == contest.payout[row.quarter]
      percent == IF stored = NullInt THEN 0 ELSE stored
  IN /\ row.payout_percent = percent
     /\ row.prize_amount * 100 = contest.square_price * 100 * percent

\* C14: a call that runs to the end with a winning square that has no claimant
\* email, or with no winning square, makes no winner transport call and leaves
\* the pair's row with winner_email_sent = true and the prize columns computed.
C14_UnclaimedWinner ==
  \A r \in RunIds :
    ( /\ Returned(r)
      /\ run[r].result.processed
      /\ run[r].winningSquare.claimant_email = NULL )
      => /\ ~run[r].winnerCall
         /\ sendCalls[<<"winner", CallContest(r).id, CallQuarter(r)>>] =
              run[r].before.sendCalls[<<"winner", CallContest(r).id, CallQuarter(r)>>]
         /\ Cardinality(CallRows(r)) = 1
         /\ \A row \in CallRows(r) :
              /\ row.winner_email_sent
              /\ row.winner_email = NULL
              /\ row.winning_square_id = run[r].winningSquare.id
              /\ PrizeWritten(row)

\* No square wins: the row has no winning square, a prize and the flag set.
C14_Witness ==
  \E r \in RunIds :
    /\ Returned(r)
    /\ run[r].result.processed
    /\ run[r].winningSquare = NoSquare
    /\ \E row \in CallRows(r) :
         /\ row.winner_email_sent
         /\ row.winning_square_id = NullId
         /\ row.prize_amount = 200

\* A transport call of the returned call was refused or failed.
WinnerSendFailed(r) == Returned(r) /\ run[r].winnerCall /\ ~run[r].winnerOK
OwnerSendFailed(r) == Returned(r) /\ run[r].ownerCall /\ ~run[r].ownerOK

\* C15: a failed transport call does not end the call: after a failed winner
\* send the owner email is still attempted when it is due and the owner has an
\* address, the call returns processed: true without error, the row stores
\* false for the failed recipient and the other recipient's own outcome; and
\* likewise after a failed owner send.
C15_SendFailureIsLocal ==
  \A r \in RunIds :
    (WinnerSendFailed(r) \/ OwnerSendFailed(r)) =>
      /\ run[r].result = [processed |-> TRUE, error |-> NULL]
      /\ Cardinality(CallRows(r)) = 1
      /\ run[r].ownerCall <=>
           (~run[r].existing.owner_email_sent /\ OwnerEmail(CallContest(r).owner_id) # NULL)
      /\ \A row \in CallRows(r) :
           /\ row.winner_email_sent =
                IF run[r].winnerCall THEN run[r].winnerOK
                ELSE (run[r].winningSquare.claimant_email = NULL
                        \/ run[r].existing.winner_email_sent)
           /\ row.owner_email_sent =
                IF run[r].ownerCall THEN run[r].ownerOK
                ELSE run[r].existing.owner_email_sent
           /\ WinnerSendFailed(r) => ~row.winner_email_sent
           /\ OwnerSendFailed(r) => ~row.owner_email_sent

\* The winner send failed, the owner send that followed was accepted.
C15_Witness ==
  \E r \in RunIds :
    /\ WinnerSendFailed(r)
    /\ run[r].ownerCall /\ run[r].ownerOK
    /\ run[r].result.processed
    /\ \E row \in CallRows(r) : ~row.winner_email_sent /\ row.owner_email_sent

\* The run has recorded an error result for a pair.
HasErrorEntry(r) == \E i \in 1..Len(run[r].results) : run[r].results[i].error # NULL

\* C16: a call that fails on the squares fetch or the result upsert returns its
\* error having sent nothing and written nothing, the run records the error
\* for the pair, and a run with such an entry still calls processQuarter for
\* every pair and ends with status processed.
C16_PairErrorIsLocal ==
  \A r \in RunIds :
    /\ (Returned(r) /\ run[r].result.error # NULL) =>
         /\ ~run[r].result.processed
         /\ ~run[r].winnerCall /\ ~run[r].ownerCall
         /\ run[r].callEffects = 0
         /\ CallRows(r) = run[r].rowBefore
    /\ (run[r].pc = "done" /\ HasErrorEntry(r)) =>
         /\ run[r].status = "processed"
         /\ Processes(r, run[r].quartersToProcess)
         /\ \E i \in 1..Len(run[r].logs) :
              run[r].logs[i] = [action |-> "process_quarter", status |-> "error"]
    /\ (run[r].pc # "done" /\ HasErrorEntry(r)) =>
         run[r].pc \in {"pq_lookup", "pq_squares", "pq_upsert", "pq_scores", "pq_winner",
                        "pq_owner", "pq_flags", "pq_return",
                        "gc_load", "gc_send", "gc_mark", "mark_finished"}

\* A final sweep whose q2 call failed: q3 and final were processed after it.
C16_Witness ==
  \E r \in RunIds :
    /\ run[r].pc = "done" /\ run[r].status = "processed"
    /\ Len(run[r].results) = 4
    /\ run[r].results[2].error # NULL
    /\ run[r].results[3].processed /\ run[r].results[4].processed

\* Nothing but the config row differs from what the run found at its request.
NoProcessingSince(r) ==
  /\ run[r].results = <<>>
  /\ run[r].effects = 0
  /\ quarter_results = run[r].before.quarter_results
  /\ scores = run[r].before.scores
  /\ sendCalls = run[r].before.sendCalls
  /\ \A c \in Contests : contests[c].status = run[r].before.contests[c].status
  /\ config.game_finished = run[r].before.game_finished

LastCheckedColumns(cfg) == <<cfg.last_checked_at, cfg.last_status, cfg.last_period>>

\* C17: a run whose score fetch failed has ended with the 500 response, its
\* only log entry the error; it fetched no contest, wrote no result or scores
\* row, sent no email, changed no contest status and no column of the config.
C17_FeedFailureIsFatal ==
  \A r \in RunIds :
    (run[r].fetched /\ ~run[r].espn.ok) =>
      /\ run[r].pc = "done" /\ run[r].status = "error"
      /\ run[r].logs = <<[action |-> "unhandled_error", status |-> "error"]>>
      /\ run[r].contestList = <<>>
      /\ NoProcessingSince(r)
      /\ LastCheckedColumns(config) = LastCheckedColumns(run[r].before.config)

\* A feed failure in a run that follows a run which stored a result.
C17_Witness ==
  \E r \in RunIds :
    /\ run[r].fetched /\ ~run[r].espn.ok
    /\ run[r].pc = "done" /\ run[r].status = "error"
    /\ quarter_results # {}

\* C18 as stated: every finished run that reached the score fetch has updated
\* last_checked_at, last_status and last_period, the feed's failure included.
C18_LastCheckedAlways ==
  \A r \in RunIds :
    (run[r].pc = "done" /\ run[r].fetched) =>
      LastCheckedColumns(config) =
        << run[r].before.config.last_checked_at + 1,
           IF run[r].espn.statusName = "" THEN NULL ELSE run[r].espn.statusName,
           IF run[r].espn.period = 0 THEN NullInt ELSE run[r].espn.period >>

\* The run has read the config row.
PastConfig(r) ==
  /\ run[r].pc \notin {"idle", "config", "selected"}
  /\ ~(run[r].status = "error" /\ ~run[r].fetched /\ run[r].contestList = <<>>
       /\ run[r].logs = <<[action |-> "check_scores", status |-> "error"]>>)

\* C19: without force a disabled config ends the run with status disabled and
\* otherwise a finished game ends it with status finished, the feed not
\* fetched; with force neither status is answered; a GET has no force and no
\* manual quarter.
C19_Gates ==
  \A r \in RunIds :
    /\ PastConfig(r) =>
         LET cfg == run[r].before.config
             stop == IF run[r].forceProcess THEN NULL
                     ELSE IF ~cfg.enabled THEN "disabled"
                     ELSE IF cfg.game_finished THEN "finished"
                     ELSE NULL
         IN IF stop # NULL
              THEN /\ run[r].pc = "done" /\ run[r].status = stop
                   /\ ~run[r].fetched
                   /\ LastCheckedColumns(config) = LastCheckedColumns(cfg)
              ELSE run[r].status \notin {"disabled", "finished"}
    /\ (run[r].pc # "idle" /\ run[r].method = "GET") =>
         ~run[r].forceProcess /\ run[r].manualQuarter = NULL

\* A forced run on a disabled config with the game finished fetched the feed.
C19_Witness ==
  \E r \in RunIds :
    /\ PastConfig(r)
    /\ run[r].forceProcess
    /\ ~run[r].before.config.enabled /\ run[r].before.config.game_finished
    /\ run[r].fetched

\* C20 as stated: the run started by resendQuarterEmails has, when it ends,
\* made one more winner and one more owner transport call for the pair whose
\* flags were reset.
C20_ResendSendsAgain ==
  \A r \in RunIds :
    (run[r].resent # NoPair /\ run[r].pc = "done") =>
      \A kind \in {"winner", "owner"} :
        LET k == <<kind, run[r].resent[1], run[r].resent[2]>> IN
          sendCalls[k] = run[r].before.sendCalls[k] + 1

\* A scheduled run has just been accepted.
RunAccepted == \E r \in RunIds : run[r].pc = "config"

\* The pair was left with an error result or with an email flag still false.
LeftUnsent(contest_id, quarter) ==
  \/ \E row \in RowsOf(quarter_results, contest_id, quarter) :
       ~row.winner_email_sent \/ ~row.owner_email_sent
  \/ lastCall[<<contest_id, quarter>>].valid /\ lastCall[<<contest_id, quarter>>].error # NULL

BothSent(contest_id, quarter) ==
  \E row \in RowsOf(quarter_results, contest_id, quarter) :
    row.winner_email_sent /\ row.owner_email_sent

\* C21 as stated: while scheduled runs keep occurring, every pair of contest
\* c1 left with an error result or a false email flag eventually has both
\* email flags true.
C21_RetriedUntilSent ==
  ([]<>RunAccepted) =>
    \A quarter \in Quarters :
      [](LeftUnsent("c1", quarter) => <>BothSent("c1", quarter))

\* C22 as stated: once the row of a pair exists, no step that leaves its
\* scores as they are changes its winner contact field.
C22_WinnerFieldsKept ==
  [][\A row \in quarter_results : \A after \in quarter_results' :
       (after.id = row.id /\ after.home_score = row.home_score
                          /\ after.away_score = row.away_score) =>
         after.winner_email = row.winner_email]_vars

\* What a run has done to a contest since its request.
RowsChanged(r, c) ==
  { row \in quarter_results : row.contest_id = c } #
    { row \in run[r].before.quarter_results : row.contest_id = c }

MailSent(r, c) ==
  \E k \in MailKeys : k[2] = c /\ sendCalls[k] # run[r].before.sendCalls[k]

StatusChanged(r, c) == contests[c].status # run[r].before.contests[c].status

\* C23: a run writes a QuarterResult, sends an email or changes the status only
\* for a contest that was, when queried, a Super Bowl football contest with
\* status open, locked or in_progress and not deleted, and it writes a
\* QuarterResult only for a contest with both number assignments.
C23_OnlyEligibleContests ==
  \A r \in RunIds : \A c \in Contests :
    run[r].pc # "idle" =>
      LET row == run[r].before.contests[c] IN
        /\ (RowsChanged(r, c) \/ MailSent(r, c) \/ StatusChanged(r, c)) =>
             /\ row.is_super_bowl
             /\ row.sport_type = "football"
             /\ row.status \in {"open", "locked", "in_progress"}
             /\ row.deleted_at = NULL
        /\ RowsChanged(r, c) =>
             row.row_numbers # NoNumbers /\ row.col_numbers # NoNumbers

\* A final run over c1 and a second Super Bowl contest without numbers: c1 got
\* its rows, its emails and its new status, the second contest nothing.
C23_Witness ==
  \E r \in RunIds :
    /\ run[r].pc = "done" /\ run[r].status = "processed"
    /\ Len(run[r].contestList) = 2
    /\ RowsChanged(r, "c1") /\ MailSent(r, "c1") /\ StatusChanged(r, "c1")
    /\ ~HasNumbers(run[r].before.contests["c2"])
    /\ ~RowsChanged(r, "c2") /\ ~MailSent(r, "c2") /\ ~StatusChanged(r, "c2")

\* The place of a quarter in the game.
GameOrder(quarter) ==
  CASE quarter = "q1" -> 1 [] quarter = "q2" -> 2 [] quarter = "q3" -> 3
    [] quarter = "final" -> 4 [] OTHER -> 5

Ascending(quarters) ==
  \A i \in 1..Len(quarters) : \A j \in 1..Len(quarters) :
    i < j => GameOrder(quarters[i]) < GameOrder(quarters[j])

\* The pairs of a run in the order of the two loops.
PairsInOrder(r) ==
  LET cs == SelectSeq(run[r].contestList,
                      LAMBDA row : row.row_numbers # NoNumbers /\ row.col_numbers # NoNumbers)
      n == Len(run[r].quartersToProcess)
  IN [i \in 1..(Len(cs) * n) |->
        <<cs[((i - 1) \div n) + 1].id, run[r].quartersToProcess[((i - 1) % n) + 1]>>]

\* Pairs whose row has been upserted and not yet given its flags.
HalfWritten ==
  { <<row.contest_id, row.quarter>> : row \in { x \in quarter_results : ~x.winner_email_sent } }

InCall(r) ==
  run[r].pc \in {"pq_squares", "pq_upsert", "pq_scores", "pq_winner", "pq_owner",
                 "pq_flags", "pq_return"}

InFinalizer(r) == run[r].pc \in {"gc_load", "gc_send", "gc_mark", "mark_finished"}

\* C24: a run records its calls in the order of the loops, each contest's
\* quarters in game order; only the pair of the call it is in can have a row
\* without its flags; and the finalizer starts after the last pair.
C24_OnePairAtATime ==
  \A r \in RunIds :
    run[r].pc \notin {"idle", "selected"} =>
      /\ Len(run[r].results) <= Len(PairsInOrder(r))
      /\ \A i \in 1..Len(run[r].results) :
           <<run[r].results[i].contestId, run[r].results[i].quarter>> = PairsInOrder(r)[i]
      /\ \A c \in Contests : Ascending(ProcessedQuarters(r, c))
      /\ HalfWritten \subseteq (IF InCall(r) THEN {CallKey(r)} ELSE {})
      /\ (InCall(r) \/ run[r].pc = "pq_lookup") =>
           CallKey(r) = PairsInOrder(r)[Len(run[r].results) + 1]
      /\ InFinalizer(r) => Len(run[r].results) = Len(PairsInOrder(r))

\* The finalizer of the first contest starts after the four quarters of both
\* contests.
C24_Witness ==
  \E r \in RunIds :
    /\ run[r].pc = "gc_load" /\ run[r].gi = 1
    /\ Len(run[r].results) = 8
    /\ run[r].results[4] = [contestId |-> "c1", quarter |-> "final",
                            processed |-> TRUE, error |-> NULL]
    /\ run[r].results[5].contestId = "c2"

\* The prize of a contest's quarter as stored, 0 without a row.
StoredPrize(contest_id, quarter) ==
  IF RowsOf(quarter_results, contest_id, quarter) = {} THEN 0
  ELSE (CHOOSE row \in RowsOf(quarter_results, contest_id, quarter) : TRUE).prize_amount

SummaryCalls(contest_id) == sendCalls[<<"summary", contest_id, "all">>]

FromOwnBoundary(row) ==
  row.quarter = "q1" /\ row.home_score = 7 /\ row.away_score = 3

\* C26 as stated: no step replaces the scores, the last digits or the winning
\* square of a row written at its quarter's own boundary.
C26_BoundaryScoresKept ==
  [][\A row \in quarter_results : \A after \in quarter_results' :
       (after.id = row.id /\ FromOwnBoundary(row)) =>
         /\ after.home_score = row.home_score
         /\ after.away_score = row.away_score
         /\ after.home_last_digit = row.home_last_digit
         /\ after.away_last_digit = row.away_last_digit
         /\ after.winning_square_id = row.winning_square_id]_vars

\* C27 as stated: when a call has returned, a row of its pair that says
\* winner_email_sent for an address got that from an accepted winner email of
\* this call to the address, or already said so for the same address when the
\* call looked the pair up.
C27_FlagVouchesForRecipient ==
  \A r \in RunIds :
    (Returned(r) /\ run[r].result.processed) =>
      \A row \in CallRows(r) :
        (row.winner_email_sent /\ row.winner_email # NULL) =>
          \/ run[r].winnerOK /\ run[r].winningSquare.claimant_email = row.winner_email
          \/ \E old \in run[r].rowBefore :
               old.winner_email_sent /\ old.winner_email = row.winner_email

\* C28 as stated: a contest the pipeline has set to completed has a result
\* row for each of the four quarters.
C28_CompletedHasAllQuarters ==
  \A contest_id \in DOMAIN contests :
    contests[contest_id].status = "completed" =>
      \A quarter \in Quarters :
        RowsOf(quarter_results, contest_id, quarter) # {}

\* C29 as stated: over any sequence of runs, one after the other, forced or
\* not, the final summary of a contest is sent at most once.
C29_SummaryAtMostOnce ==
  \A contest_id \in DOMAIN contests : SummaryCalls(contest_id) <= 1

\* game_finished changes in this step, and only from false to true, written by
\* a run that saw the game final and found at least one contest.
FinishedSetByFinalRun ==
  (config'.game_finished # config.game_finished) =>
    /\ config'.game_finished
    /\ \E r \in RunIds :
         /\ run[r].pc = "mark_finished" /\ run'[r].pc = "done"
         /\ IsGameFinal(run[r].espn)
         /\ Len(run[r].contestList) >= 1

\* A run that answers processed on a final game leaves game_finished true,
\* whatever its calls and its finalizer returned.
FinishedSetWhateverFailed ==
  \A r \in RunIds :
    (run[r].pc # "done" /\ run'[r].pc = "done" /\ run'[r].status = "processed"
       /\ IsGameFinal(run'[r].espn)) => config'.game_finished

\* Run r read the config row with game_finished true and has no force.
GatedByFinished(r) ==
  PastConfig(r) /\ ~run[r].forceProcess /\ run[r].before.config.game_finished

\* C30: game_finished is set only by a run that saw the game final and found a
\* contest, is set by such a run even when a call or the finalizer failed, is
\* never set back, and once it is true a run without force that reads the
\* config answers finished, or disabled when score checking is disabled.
C30_GameFinishedLatch ==
  [][/\ FinishedSetByFinalRun
     /\ FinishedSetWhateverFailed
     /\ \A r \in RunIds :
          GatedByFinished(r)' =>
            /\ run'[r].pc = "done"
            /\ run'[r].status =
                 IF run'[r].before.config.enabled THEN "finished" ELSE "disabled"]_vars

\* A run with a failed call has answered processed on a final game and
\* game_finished is true.
C30_Witness ==
  \E r \in RunIds :
    /\ run[r].pc = "done" /\ run[r].status = "processed"
    /\ HasErrorEntry(r)
    /\ IsGameFinal(run[r].espn)
    /\ config.game_finished

\* C30 as stated: once game_finished is true every run without force answers
\* finished.
C30_FinishedAnswersFinished ==
  [][/\ FinishedSetByFinalRun
     /\ FinishedSetWhateverFailed
     /\ \A r \in RunIds :
          GatedByFinished(r)' =>
            run'[r].pc = "done" /\ run'[r].status = "finished"]_vars

\* A run without force answered finished after game_finished was set.
C30_GatedWitness ==
  \E r \in RunIds : GatedByFinished(r) /\ run[r].status = "finished"

====
